---------------------------- MODULE Spec2Model ----------------------------
(***************************************************************************)
(* Customer Support Ticket Quality Audit (src/main.py).                    *)
(*                                                                         *)
(* The program is a batch pipeline: main() calls load_data,                *)
(* remove_duplicates, clean_text_columns, handle_missing_values,           *)
(* clean_dates, classify_issues, flag_tickets, create_summary,             *)
(* write_report and export_files in that order.  The model has one action  *)
(* per call (write_report is split at its open / f.write / f.close calls   *)
(* and export_files at its two to_csv calls, because an I/O error can      *)
(* leave the function between them).                                       *)
(*                                                                         *)
(* Representation.                                                         *)
(*   - A text is a tuple of characters, each character a string, so that   *)
(*     len(), `in`, strip(), lower(), title() and isupper() are computed   *)
(*     character by character.  A character outside ASCII is named by its  *)
(*     code point ("U+01C5").                                              *)
(*   - NaN in a text column is the tuple <<"NaN">> (no text has a          *)
(*     character of that name); NaN in the numeric column is NaNf.         *)
(*   - resolution_time_hours is counted in half hours, so that the median  *)
(*     of whole-hour inputs is an integer.                                 *)
(*   - A quotient a / b is kept exactly, as <<"float", a, b>>.             *)
(*   - pandas semantics are those of pandas 1.x / 2.x without              *)
(*     copy-on-write: astype(str) turns NaN into the text "nan", and       *)
(*     df[col].fillna(v, inplace=True) updates df.                         *)
(***************************************************************************)
EXTENDS Integers, Sequences, FiniteSets, TLC

\* Largest number of data rows in a multi-row tickets.csv.
MaxRows == 3

(***************************************************************************)
(* Characters and Python's str methods                                     *)
(***************************************************************************)
ascii_uppercase == <<"A", "B", "C", "D", "E", "F", "G", "H", "I", "J", "K", "L", "M", "N", "O", "P", "Q", "R", "S", "T", "U", "V", "W", "X", "Y", "Z">>

ascii_lowercase == <<"a", "b", "c", "d", "e", "f", "g", "h", "i", "j", "k", "l", "m", "n", "o", "p", "q", "r", "s", "t", "u", "v", "w", "x", "y", "z">>

\* U+01C4 (uppercase), U+01C5 (titlecase), U+01C6 (lowercase): the three
\* case forms of the Latin digraph DZ with caron.
IsUpperCh(c) == (\E i \in 1..26 : ascii_uppercase[i] = c) \/ c = "U+01C4"

IsLowerCh(c) == (\E i \in 1..26 : ascii_lowercase[i] = c) \/ c = "U+01C6"

IsTitleCh(c) == c = "U+01C5"

IsCasedCh(c) == IsUpperCh(c) \/ IsLowerCh(c) \/ IsTitleCh(c)

IsSpaceCh(c) == c \in {" ", "\t"}

ToLowerCh(c) ==
    IF \E i \in 1..26 : ascii_uppercase[i] = c
    THEN ascii_lowercase[CHOOSE i \in 1..26 : ascii_uppercase[i] = c]
    ELSE IF c \in {"U+01C4", "U+01C5"} THEN "U+01C6" ELSE c

ToTitleCh(c) ==
    IF \E i \in 1..26 : ascii_lowercase[i] = c
    THEN ascii_uppercase[CHOOSE i \in 1..26 : ascii_lowercase[i] = c]
    ELSE IF c \in {"U+01C4", "U+01C6"} THEN "U+01C5" ELSE c

\* str.lower()
Lower(s) == [i \in 1..Len(s) |-> ToLowerCh(s[i])]

\* str.title(): a character that follows a cased character is lowercased,
\* any other character is titlecased.
Title(s) ==
    [i \in 1..Len(s) |->
        IF i > 1 /\ IsCasedCh(s[i-1]) THEN ToLowerCh(s[i]) ELSE ToTitleCh(s[i])]

\* str.strip(): drop leading and trailing whitespace.
Strip(s) ==
    LET keep == {i \in 1..Len(s) : ~IsSpaceCh(s[i])}
    IN  IF keep = {} THEN <<>>
        ELSE LET lo == CHOOSE i \in keep : \A j \in keep : i <= j
                 hi == CHOOSE i \in keep : \A j \in keep : j <= i
             IN  SubSeq(s, lo, hi)

\* str.isupper(): no lowercase and no titlecase character, and at least one
\* uppercase character.
IsUpper(s) ==
    /\ \A i \in 1..Len(s) : ~(IsLowerCh(s[i]) \/ IsTitleCh(s[i]))
    /\ \E i \in 1..Len(s) : IsUpperCh(s[i])

\* `word in text`
In(word, text) ==
    \E i \in 1..(Len(text) - Len(word) + 1) :
        SubSeq(text, i, i + Len(word) - 1) = word

(***************************************************************************)
(* Values of the data frame                                                *)
(***************************************************************************)
\* NaN in a column of texts.
NaN == <<"NaN">>

\* NaN in the numeric column (values are >= 0).
NaNf == -1

\* NaT, the missing datetime.
NaT == <<"NaT">>

\* A column the file does not have.
NoColumn == <<"no column">>

\* The strings pandas.read_csv reads as NaN (its default na_values).
na_values ==
    { <<>>,
      <<"#", "N", "/", "A">>,
      <<"#", "N", "/", "A", " ", "N", "/", "A">>,
      <<"#", "N", "A">>,
      <<"-", "1", ".", "#", "I", "N", "D">>,
      <<"-", "1", ".", "#", "Q", "N", "A", "N">>,
      <<"-", "N", "a", "N">>,
      <<"-", "n", "a", "n">>,
      <<"1", ".", "#", "I", "N", "D">>,
      <<"1", ".", "#", "Q", "N", "A", "N">>,
      <<"<", "N", "A", ">">>,
      <<"N", "/", "A">>,
      <<"N", "A">>,
      <<"N", "U", "L", "L">>,
      <<"N", "a", "N">>,
      <<"N", "o", "n", "e">>,
      <<"n", "/", "a">>,
      <<"n", "a", "n">>,
      <<"n", "u", "l", "l">> }

\* Series.astype(str) on one value: NaN becomes the text "nan".
AsStr(v) == IF v = NaN THEN <<"n", "a", "n">> ELSE v

\* Series.fillna(value) on one value.
FillNa(v, value) == IF v = NaN THEN value ELSE v

\* str(True) / str(False), as to_csv writes a bool.
BoolStr(b) == IF b THEN <<"T", "r", "u", "e">> ELSE <<"F", "a", "l", "s", "e">>

DateGood == <<"2", "0", "2", "4", "-", "0", "1", "-", "0", "5">>

\* pd.to_datetime(errors="coerce") on one value: a date that parses is kept
\* (as its ISO text), anything else becomes NaT.
ToDatetime(v) == IF v = DateGood THEN v ELSE NaT

(***************************************************************************)
(* pandas.read_csv and DataFrame.to_csv                                    *)
(***************************************************************************)
\* One text cell as read_csv parses it.
ReadCell(c) == IF c \in na_values THEN NaN ELSE c

\* One bool cell as read_csv parses it.
ReadBool(c) == IF c = NoColumn THEN NoColumn ELSE c = <<"T", "r", "u", "e">>

\* One cell as to_csv writes it: a missing value is written as the empty
\* string.
WriteCell(v) == IF v \in {NaN, NaT} THEN <<>> ELSE v

\* pd.read_csv("tickets.csv"): the rows get the index labels 0 .. n-1.
read_csv(file) ==
    [k \in 1..Len(file) |->
        [index                 |-> k - 1,
         priority              |-> ReadCell(file[k].priority),
         status                |-> ReadCell(file[k].status),
         subject               |-> ReadCell(file[k].subject),
         message               |-> ReadCell(file[k].message),
         resolution_time_hours |-> file[k].resolution_time_hours,
         created_date          |-> ReadCell(file[k].created_date),
         issue_type            |-> ReadCell(file[k].issue_type),
         is_flagged            |-> ReadBool(file[k].is_flagged),
         flag_reason           |-> ReadCell(file[k].flag_reason)]]

\* df.to_csv(path, index=False)
to_csv(d) ==
    [k \in 1..Len(d) |->
        [priority              |-> WriteCell(d[k].priority),
         status                |-> WriteCell(d[k].status),
         subject               |-> WriteCell(d[k].subject),
         message               |-> WriteCell(d[k].message),
         resolution_time_hours |-> d[k].resolution_time_hours,
         created_date          |-> WriteCell(d[k].created_date),
         issue_type            |-> WriteCell(d[k].issue_type),
         is_flagged            |-> BoolStr(d[k].is_flagged),
         flag_reason           |-> WriteCell(d[k].flag_reason)]]

(***************************************************************************)
(* Data frame helpers                                                      *)
(***************************************************************************)
\* The columns of a row, without its index label.
Cols(r) ==
    <<r.priority, r.status, r.subject, r.message, r.resolution_time_hours,
      r.created_date, r.issue_type, r.is_flagged, r.flag_reason>>

RECURSIVE Take(_, _, _)
\* The rows of d at the positions in S, in order, from position k on.
Take(d, S, k) ==
    IF k > Len(d) THEN <<>>
    ELSE IF k \in S THEN <<d[k]>> \o Take(d, S, k + 1)
    ELSE Take(d, S, k + 1)

\* The index labels of d, in order.
IndexOf(d) == [k \in 1..Len(d) |-> d[k].index]

\* df.loc[i, ...] raises KeyError when no row has the label i.
HasLabel(d, i) == \E k \in 1..Len(d) : d[k].index = i

\* df.loc[i]: the row labelled i.
Loc(d, i) == d[CHOOSE k \in 1..Len(d) : d[k].index = i]

\* df.drop_duplicates(inplace=True): a row equal to an earlier row is
\* dropped; the rows kept keep their index labels.
DropDuplicates(d) ==
    Take(d, {k \in 1..Len(d) : \A j \in 1..(k-1) : Cols(d[j]) # Cols(d[k])}, 1)

(***************************************************************************)
(* 3) clean_text_columns                                                   *)
(***************************************************************************)
clean_text_columns(d) ==
    [k \in 1..Len(d) |->
        [d[k] EXCEPT
            !.priority = Title(Strip(AsStr(d[k].priority))),
            !.status   = Title(Strip(AsStr(d[k].status))),
            !.subject  = Strip(AsStr(d[k].subject)),
            !.message  = Strip(AsStr(d[k].message))]]

(***************************************************************************)
(* 4) handle_missing_values                                                *)
(***************************************************************************)
\* Series.median(): NaN is skipped; the median of no value is NaN; the
\* median of an even number of values is the mean of the middle two.
Median(d) ==
    LET P   == {k \in 1..Len(d) : d[k].resolution_time_hours # NaNf}
        n   == Cardinality(P)
        v(k) == d[k].resolution_time_hours
        \* the value of rank r (1 = smallest)
        Rank(r) == v(CHOOSE k \in P :
                        /\ Cardinality({j \in P : v(j) < v(k)}) < r
                        /\ r <= Cardinality({j \in P : v(j) <= v(k)}))
    IN  IF n = 0 THEN NaNf
        ELSE IF n % 2 = 1 THEN Rank((n + 1) \div 2)
        ELSE (Rank(n \div 2) + Rank(n \div 2 + 1)) \div 2

handle_missing_values(d) ==
    LET median_time == Median(d)
    IN  [k \in 1..Len(d) |->
            [d[k] EXCEPT
                !.priority = FillNa(d[k].priority, <<"L", "o", "w">>),
                !.status   = FillNa(d[k].status, <<"O", "p", "e", "n">>),
                !.resolution_time_hours =
                    IF d[k].resolution_time_hours = NaNf
                    THEN median_time ELSE d[k].resolution_time_hours]]

(***************************************************************************)
(* 5) clean_dates                                                          *)
(***************************************************************************)
clean_dates(d) ==
    [k \in 1..Len(d) |-> [d[k] EXCEPT !.created_date = ToDatetime(d[k].created_date)]]

(***************************************************************************)
(* 6) classify_issues                                                      *)
(***************************************************************************)
billing_words == { <<"r", "e", "f", "u", "n", "d">>, <<"c", "h", "a", "r", "g", "e">>, <<"i", "n", "v", "o", "i", "c", "e">>, <<"p", "a", "y", "m", "e", "n", "t">> }

technical_words == { <<"e", "r", "r", "o", "r">>, <<"b", "u", "g">>, <<"c", "r", "a", "s", "h">>, <<"l", "o", "g", "i", "n">>, <<"f", "a", "i", "l", "e", "d">> }

account_words == { <<"p", "a", "s", "s", "w", "o", "r", "d">>, <<"e", "m", "a", "i", "l">>, <<"a", "c", "c", "o", "u", "n", "t">>, <<"v", "e", "r", "i", "f", "y">> }

delivery_words == { <<"d", "e", "l", "i", "v", "e", "r", "y">>, <<"s", "h", "i", "p", "p", "i", "n", "g">>, <<"l", "a", "t", "e">>, <<"t", "r", "a", "c", "k", "i", "n", "g">> }

Billing == <<"B", "i", "l", "l", "i", "n", "g">>

Technical == <<"T", "e", "c", "h", "n", "i", "c", "a", "l">>

Account == <<"A", "c", "c", "o", "u", "n", "t">>

Delivery == <<"D", "e", "l", "i", "v", "e", "r", "y">>

Other == <<"O", "t", "h", "e", "r">>

\* `for word in words: if word in text: ...; break`
AnyIn(words, text) == \E word \in words : In(word, text)

\* The body of the loop of classify_issues for the row labelled i.
IssueOf_TechnicalFirst(subject, message) ==
    LET text == Lower(subject \o <<" ">> \o message)
    IN  IF AnyIn(technical_words, text) THEN Technical
        ELSE IF AnyIn(billing_words, text) THEN Billing
        ELSE IF AnyIn(account_words, text) THEN Account
        ELSE IF AnyIn(delivery_words, text) THEN Delivery
        ELSE Other

IssueOf(subject, message) ==
    LET text   == Lower(subject \o <<" ">> \o message)
        issue0 == Other
        issue1 == IF AnyIn(billing_words, text) THEN Billing ELSE issue0
        issue2 == IF issue1 = Other /\ AnyIn(technical_words, text)
                  THEN Technical ELSE issue1
        issue3 == IF issue2 = Other /\ AnyIn(account_words, text)
                  THEN Account ELSE issue2
        issue4 == IF issue3 = Other /\ AnyIn(delivery_words, text)
                  THEN Delivery ELSE issue3
    IN  issue4

\* The labels the loops `for i in range(len(df)): df.loc[i, ...]` look up
\* before they finish or raise KeyError.
Lookups(d) ==
    LET missing == {i \in 0..(Len(d) - 1) : ~HasLabel(d, i)}
    IN  IF missing = {} THEN [k \in 1..Len(d) |-> k - 1]
        ELSE LET first == CHOOSE i \in missing : \A j \in missing : i <= j
             IN  [k \in 1..(first + 1) |-> k - 1]

\* The loops over range(len(df)) raise KeyError.
RaisesKeyError(d) == \E i \in 0..(Len(d) - 1) : ~HasLabel(d, i)

\* classify_issues when no lookup raises: issue_types[i] is computed from the
\* row labelled i and the list is assigned to the column by position.
classify_issues(d) ==
    [k \in 1..Len(d) |->
        [d[k] EXCEPT !.issue_type =
            IssueOf(Loc(d, k - 1).subject, Loc(d, k - 1).message)]]

(***************************************************************************)
(* 7) flag_tickets                                                         *)
(***************************************************************************)
\* The length below which a message is too short.
MinMessageLen == 20

ReasonShort == <<"M", "e", "s", "s", "a", "g", "e", " ", "t", "o", "o", " ", "s", "h", "o", "r", "t">>

ReasonCaps == <<"M", "e", "s", "s", "a", "g", "e", " ", "i", "n", " ", "a", "l", "l", " ", "c", "a", "p", "s">>

ReasonPunct == <<"E", "x", "c", "e", "s", "s", "i", "v", "e", " ", "p", "u", "n", "c", "t", "u", "a", "t", "i", "o", "n">>

\* The if / elif / elif chain of flag_tickets: <<flag, reason>>.
FlagOf_CapsFirst(message) ==
    IF IsUpper(message) THEN <<TRUE, ReasonCaps>>
    ELSE IF Len(message) < MinMessageLen THEN <<TRUE, ReasonShort>>
    ELSE IF In(<<"!", "!", "!">>, message) \/ In(<<"?", "?", "?">>, message) THEN <<TRUE, ReasonPunct>>
    ELSE <<FALSE, <<>> >>

FlagOf_PunctUnflagged(message) ==
    IF Len(message) < MinMessageLen THEN <<TRUE, ReasonShort>>
    ELSE IF IsUpper(message) THEN <<TRUE, ReasonCaps>>
    ELSE IF In(<<"!", "!", "!">>, message) \/ In(<<"?", "?", "?">>, message) THEN <<FALSE, ReasonPunct>>
    ELSE <<FALSE, <<>> >>

FlagOf(message) ==
    IF Len(message) < MinMessageLen THEN <<TRUE, ReasonShort>>
    ELSE IF IsUpper(message) THEN <<TRUE, ReasonCaps>>
    ELSE IF In(<<"!", "!", "!">>, message) \/ In(<<"?", "?", "?">>, message) THEN <<TRUE, ReasonPunct>>
    ELSE <<FALSE, <<>> >>

flag_tickets(d) ==
    [k \in 1..Len(d) |->
        [d[k] EXCEPT
            !.is_flagged  = FlagOf(Loc(d, k - 1).message)[1],
            !.flag_reason = FlagOf(Loc(d, k - 1).message)[2]]]

(***************************************************************************)
(* 8) create_summary                                                       *)
(***************************************************************************)
\* Values of the summary dictionary: an int, a quotient a / b, NaN, or the
\* string "N/A".
IntVal(n) == <<"int", n, 1>>

NA == <<"N/A", 0, 0>>

\* a / b in Python, a an int or NaN, b > 0.
Div(a, b) == IF a = NaNf THEN <<"nan", 0, 0>> ELSE <<"float", a, b>>

\* a + b in Python, either of them possibly NaN.
AddF(a, b) == IF a = NaNf \/ b = NaNf THEN NaNf ELSE a + b

RECURSIVE SumSkipNa(_, _)
SumSkipNa(d, k) ==
    IF k > Len(d) THEN 0
    ELSE (IF d[k].resolution_time_hours = NaNf THEN 0
          ELSE d[k].resolution_time_hours) + SumSkipNa(d, k + 1)

\* Series.mean(): NaN is skipped; the mean of no value is NaN.
Mean(d) ==
    LET n == Cardinality({k \in 1..Len(d) : d[k].resolution_time_hours # NaNf})
    IN  IF n = 0 THEN <<"nan", 0, 0>> ELSE <<"float", SumSkipNa(d, 1), n>>

RECURSIVE CountFlagged(_, _)
\* The first loop of create_summary, from label i on.
CountFlagged(d, i) ==
    IF i >= Len(d) THEN 0
    ELSE (IF Loc(d, i).is_flagged = TRUE THEN 1 ELSE 0) + CountFlagged(d, i + 1)

RECURSIVE Accumulate(_, _, _)
\* The second loop of create_summary, from label i on, with the four
\* accumulators in acc.
Accumulate_Swapped(d, i, acc) ==
    IF i >= Len(d) THEN acc
    ELSE LET time_val == Loc(d, i).resolution_time_hours
         IN  Accumulate(d, i + 1,
                IF Loc(d, i).is_flagged = TRUE
                THEN [acc EXCEPT !.not_flagged_sum = AddF(@, time_val),
                                 !.flagged_n = @ + 1]
                ELSE [acc EXCEPT !.flagged_sum = AddF(@, time_val),
                                 !.not_flagged_n = @ + 1])

Accumulate(d, i, acc) ==
    IF i >= Len(d) THEN acc
    ELSE LET time_val == Loc(d, i).resolution_time_hours
         IN  Accumulate(d, i + 1,
                IF Loc(d, i).is_flagged = TRUE
                THEN [acc EXCEPT !.flagged_sum = AddF(@, time_val),
                                 !.flagged_n = @ + 1]
                ELSE [acc EXCEPT !.not_flagged_sum = AddF(@, time_val),
                                 !.not_flagged_n = @ + 1])

RECURSIVE IssueCounts(_, _, _)
\* The third loop of create_summary, from label i on: the dictionary
\* issue_counts as the sequence of its <<issue, count>> items in insertion
\* order.
IssueCounts(d, i, counts) ==
    IF i >= Len(d) THEN counts
    ELSE LET issue == Loc(d, i).issue_type
         IN  IssueCounts(d, i + 1,
                IF \E j \in 1..Len(counts) : counts[j][1] = issue
                THEN [j \in 1..Len(counts) |->
                        IF counts[j][1] = issue
                        THEN <<issue, counts[j][2] + 1>> ELSE counts[j]]
                ELSE Append(counts, <<issue, 1>>))

\* One item of the summary dictionary; issue is the issue type of an
\* "issue_count_<issue>" key and <<>> for the other keys.
Item(key, issue, value) == [key |-> key, issue |-> issue, value |-> value]

\* The summary dictionary as the sequence of its items in insertion order.
create_summary(d) ==
    LET total_tickets == Len(d)
        flagged_count == CountFlagged(d, 0)
        acc == Accumulate(d, 0, [flagged_sum |-> 0, flagged_n |-> 0,
                                 not_flagged_sum |-> 0, not_flagged_n |-> 0])
        issue_counts == IssueCounts(d, 0, <<>>)
    IN  << Item("total_tickets", <<>>, IntVal(total_tickets)),
           Item("flagged_tickets", <<>>, IntVal(flagged_count)),
           Item("flagged_percent", <<>>,
                IF total_tickets > 0
                THEN <<"float", flagged_count * 100, total_tickets>>
                ELSE IntVal(0)),
           Item("average_resolution_time_hours", <<>>, Mean(d)),
           Item("avg_resolution_flagged_hours", <<>>,
                IF acc.flagged_n > 0
                THEN Div(acc.flagged_sum, acc.flagged_n) ELSE NA),
           Item("avg_resolution_not_flagged_hours", <<>>,
                IF acc.not_flagged_n > 0
                THEN Div(acc.not_flagged_sum, acc.not_flagged_n) ELSE NA) >>
        \o [j \in 1..Len(issue_counts) |->
                Item("issue_count_", issue_counts[j][1],
                     IntVal(issue_counts[j][2]))]

(***************************************************************************)
(* 9) write_report and 10) export_files                                    *)
(***************************************************************************)
\* The f.write calls of write_report, in order: the two heading lines, then
\* one line per item of the summary.
ReportLines(s) ==
    << Item("Customer Support Ticket Quality Audit Report", <<>>, <<"text", 0, 0>>),
       Item("===========================================", <<>>, <<"text", 0, 0>>) >>
    \o s

\* flagged_rows of export_files: the labels i with df.loc[i, "is_flagged"],
\* and df.loc[flagged_rows].
FlaggedDf(d) ==
    Take([k \in 1..Len(d) |-> Loc(d, k - 1)],
         {k \in 1..Len(d) : Loc(d, k - 1).is_flagged = TRUE}, 1)

OutputFiles == {"report.txt", "tickets_cleaned.csv", "tickets_flagged.csv"}

(***************************************************************************)
(* The files tickets.csv can be                                            *)
(***************************************************************************)
\* One data row of tickets.csv, which has the six input columns only.
\* resolution_time_hours is in half hours, NaNf for an empty cell.
FileRow(priority, status, subject, message, hours, date) ==
    [priority              |-> priority,
     status                |-> status,
     subject               |-> subject,
     message               |-> message,
     resolution_time_hours |-> hours,
     created_date          |-> date,
     issue_type            |-> NoColumn,
     is_flagged            |-> NoColumn,
     flag_reason           |-> NoColumn]

\* Rows of the multi-row files.  RowA and RowA2 differ only in whitespace
\* and letter case; RowB has no priority, status and resolution time.
RowA ==
    FileRow(<<" ", "h", "i", "g", "h", " ">>, <<"O", "P", "E", "N">>, <<"R", "e", "f", "u", "n", "d">>, <<" ", "R", "e", "f", "u", "n", "d", " ", "f", "a", "i", "l", "e", "d", ",", " ", "p", "l", "s", " ", "f", "i", "x", " ", "i", "t", " ">>, 4, DateGood)

RowA2 ==
    FileRow(<<"H", "i", "g", "h">>, <<"O", "p", "e", "n">>, <<"R", "e", "f", "u", "n", "d">>, <<"R", "e", "f", "u", "n", "d", " ", "f", "a", "i", "l", "e", "d", ",", " ", "p", "l", "s", " ", "f", "i", "x", " ", "i", "t">>, 4, DateGood)

RowB ==
    FileRow(<<>>, <<>>, <<" ", "H", "e", "l", "p", " ">>, <<"b", "u", "g">>, NaNf, <<"s", "o", "o", "n">>)

RowC ==
    FileRow(<<"l", "o", "w">>, <<"c", "l", "o", "s", "e", "d">>, <<" ", " ">>, <<"M", "Y", " ", "A", "C", "C", "O", "U", "N", "T", " ", "I", "S", " ", "L", "O", "C", "K", "E", "D", " ", "O", "U", "T">>, 8, DateGood)

CoreRows == {RowA, RowA2, RowB, RowC}

\* <<subject, message>> of the rows of the single-row files.
SingleTexts ==
    { <<<<"R", "e", "f", "u", "n", "d">>, <<"P", "l", "e", "a", "s", "e", " ", "r", "e", "f", "u", "n", "d", " ", "m", "y", " ", "p", "a", "y", "m", "e", "n", "t", ",", " ", "t", "h", "i", "s", " ", "i", "s", " ", "a", " ", "S", "C", "A", "M", "!", "!", "!">>>>,
      <<<<>>, <<>>>>,
      <<<<"H", "e", "l", "p">>, <<"H", "E", "L", "L", "O">>>>,
      <<<<"H", "e", "l", "p">>, <<"1", "2", "3", "4", "5", "6", "7", "8", "9", "0", "1", "2", "3", "4", "5", "6", "7", "8", "9", "0">>>>,
      <<<<"H", "e", "l", "p">>, <<"l", "a", "t", "e", "n", "e", "s", "s", " ", "o", "f", " ", "m", "y", " ", "p", "a", "r", "c", "e", "l", "?", "?", "?">>>>,
      <<<<"H", "e", "l", "p">>, <<"W", "H", "E", "R", "E", " ", "I", "S", " ", "I", "T", "!", "!", "!", " ", "1", "2", "3", "4", "5", "6", "7", "8", "9", "0">>>>,
      <<<<"L", "O", "G", "I", "N">>, <<"w", "h", "a", "t", "?", "?", "?">>>>,
      <<<<"r", "e">>, <<"f", "u", "n", "d", " ", "p", "l", "e", "a", "s", "e", " ", "t", "h", "a", "n", "k", "s", " ", "a", " ", "l", "o", "t">>>>,
      <<<<"H", "e", "l", "p">>, <<"I", " ", "n", "e", "e", "d", " ", "s", "o", "m", "e", " ", "h", "e", "l", "p", " ", "w", "i", "t", "h", " ", "t", "h", "i", "n", "g", "s">>>>,
      <<<<"H", "e", "l", "p">>, <<"l", "o", "g", "i", "n", " ", "t", "o", " ", "m", "y", " ", "a", "c", "c", "o", "u", "n", "t", " ", "i", "s", " ", "s", "l", "o", "w">>>>,
      <<<<"H", "e", "l", "p">>, <<"v", "e", "r", "i", "f", "y", " ", "s", "h", "i", "p", "p", "i", "n", "g", " ", "a", "d", "d", "r", "e", "s", "s", " ", "h", "e", "r", "e">>>>,
      <<<<"H", "e", "l", "p">>, <<"T", "R", "A", "C", "K", "I", "N", "G", " ", "1", "2", "3", "4", "5", " ", "E", "R", "R", "O", "R", " ", "1", "2", "3", "4", "5">>>>,
      <<<<"H", "e", "l", "p">>, <<" ", "N", "A", " ">>>>,
      <<<<"H", "e", "l", "p">>, [i \in 1..MinMessageLen |-> "U+01C5"]>>,
      <<<<"H", "e", "l", "p">>, [i \in 1..MinMessageLen |-> IF i = 1 THEN "U+01C4" ELSE "U+01C5"]>> }

SingleRows == {FileRow(<<"L", "o", "w">>, <<>>, t[1], t[2], 2, DateGood) : t \in SingleTexts}

RECURSIVE SeqsUpTo(_, _)
\* The sequences of at most n elements of S.
SeqsUpTo(S, n) ==
    IF n = 0 THEN {<<>>}
    ELSE LET shorter == SeqsUpTo(S, n - 1)
         IN  shorter \cup {Append(s, x) : s \in shorter, x \in S}

Inputs == SeqsUpTo(CoreRows, MaxRows) \cup {<<r>> : r \in SingleRows}

(***************************************************************************)
(* State                                                                   *)
(***************************************************************************)
VARIABLES
    pc,             \* the call of main() that runs next, "done" or "aborted"
    run,            \* 1: the run on tickets.csv; 2: the run on its own export
    inputReadable,  \* tickets.csv exists and can be read
    input,          \* the data rows of tickets.csv
    outDirExists,   \* the directory outputs/ exists
    fileState,      \* per output file: "absent", "stale" (left by an earlier
                    \* run) or "written" (opened for writing by this run)
    report,         \* the lines of outputs/report.txt
    cleanedCsv,     \* the data rows of outputs/tickets_cleaned.csv
    flaggedCsv,     \* the data rows of outputs/tickets_flagged.csv
    df,             \* the data frame main() passes from call to call
    summary,        \* the dictionary create_summary returned
    openHandles,    \* the files the program has open
    error,          \* the exception that ended the run, "" if none
    visited,        \* the labels classify_issues looked up with df.loc
    firstRun        \* <<issue_type, is_flagged>> per row of run 1

vars ==
    <<pc, run, inputReadable, input, outDirExists, fileState, report,
      cleanedCsv, flaggedCsv, df, summary, openHandles, error, visited,
      firstRun>>

Init ==
    /\ pc = "load_data"
    /\ run = 1
    /\ inputReadable \in BOOLEAN
    /\ input \in (IF inputReadable THEN Inputs ELSE {<<>>})
    /\ \E st \in {"nodir", "absent", "stale"} :
          /\ outDirExists = (st # "nodir")
          /\ fileState = [f \in OutputFiles |-> IF st = "stale" THEN "stale" ELSE "absent"]
    /\ report = <<>>
    /\ cleanedCsv = <<>>
    /\ flaggedCsv = <<>>
    /\ df = <<>>
    /\ summary = <<>>
    /\ openHandles = {}
    /\ error = ""
    /\ visited = <<>>
    /\ firstRun = <<>>

\* An exception leaves main(): the run is over.
Raise(e) ==
    /\ pc' = "aborted"
    /\ error' = e

files == <<outDirExists, fileState, report, cleanedCsv, flaggedCsv, openHandles>>

env == <<run, inputReadable, input, firstRun>>

(***************************************************************************)
(* The calls of main()                                                     *)
(***************************************************************************)
\* pd.read_csv raises when tickets.csv is missing or unreadable.
CanRead_Always == TRUE

CanRead == inputReadable

LoadData ==
    /\ pc = "load_data"
    /\ IF CanRead
       THEN /\ df' = read_csv(input)
            /\ pc' = "remove_duplicates"
            /\ UNCHANGED error
       ELSE /\ Raise("FileNotFoundError: tickets.csv")
            /\ UNCHANGED df
    /\ UNCHANGED <<files, env, summary, visited>>

RemoveDuplicates ==
    /\ pc = "remove_duplicates"
    /\ df' = DropDuplicates(df)
    /\ pc' = "clean_text_columns"
    /\ UNCHANGED <<files, env, summary, visited, error>>

CleanTextColumns ==
    /\ pc = "clean_text_columns"
    /\ df' = clean_text_columns(df)
    /\ pc' = "handle_missing_values"
    /\ UNCHANGED <<files, env, summary, visited, error>>

HandleMissingValues ==
    /\ pc = "handle_missing_values"
    /\ df' = handle_missing_values(df)
    /\ pc' = "clean_dates"
    /\ UNCHANGED <<files, env, summary, visited, error>>

CleanDates ==
    /\ pc = "clean_dates"
    /\ df' = clean_dates(df)
    /\ pc' = "classify_issues"
    /\ UNCHANGED <<files, env, summary, visited, error>>

ClassifyIssues ==
    /\ pc = "classify_issues"
    /\ visited' = Lookups(df)
    /\ IF RaisesKeyError(df)
       THEN /\ Raise("KeyError in classify_issues")
            /\ UNCHANGED df
       ELSE /\ df' = classify_issues(df)
            /\ pc' = "flag_tickets"
            /\ UNCHANGED error
    /\ UNCHANGED <<files, env, summary>>

FlagTickets ==
    /\ pc = "flag_tickets"
    /\ IF RaisesKeyError(df)
       THEN /\ Raise("KeyError in flag_tickets")
            /\ UNCHANGED df
       ELSE /\ df' = flag_tickets(df)
            /\ pc' = "create_summary"
            /\ UNCHANGED error
    /\ UNCHANGED <<files, env, summary, visited>>

CreateSummary ==
    /\ pc = "create_summary"
    /\ IF RaisesKeyError(df)
       THEN /\ Raise("KeyError in create_summary")
            /\ UNCHANGED summary
       ELSE /\ summary' = create_summary(df)
            /\ pc' = "write_report"
            /\ UNCHANGED error
    /\ UNCHANGED <<files, env, df, visited>>

\* open("outputs/report.txt", "w") creates or truncates the file; it raises
\* when the directory outputs/ does not exist.
OpenReport ==
    /\ pc = "write_report"
    /\ IF outDirExists
       THEN /\ openHandles' = openHandles \cup {"report.txt"}
            /\ fileState' = [fileState EXCEPT !["report.txt"] = "written"]
            /\ report' = <<>>
            /\ pc' = "f.write"
            /\ UNCHANGED error
       ELSE /\ Raise("FileNotFoundError: outputs/report.txt")
            /\ UNCHANGED <<openHandles, fileState, report>>
    /\ UNCHANGED <<outDirExists, cleanedCsv, flaggedCsv, env, df, summary, visited>>

\* One f.write call: the next line is written.
WriteLine ==
    /\ pc = "f.write"
    /\ Len(report) < Len(ReportLines(summary))
    /\ report' = Append(report, ReportLines(summary)[Len(report) + 1])
    /\ UNCHANGED <<pc, error, outDirExists, fileState, cleanedCsv, flaggedCsv,
                   openHandles, env, df, summary, visited>>

\* One f.write call fails (the disk is full, the device is gone): OSError
\* leaves write_report, which has no try / finally and no `with`.
WriteFails ==
    /\ pc = "f.write"
    /\ Len(report) < Len(ReportLines(summary))
    /\ Raise("OSError in write_report")
    /\ UNCHANGED <<files, env, df, summary, visited>>

\* f.close() after the last f.write; write_report returns.
CloseReport ==
    /\ pc = "f.write"
    /\ Len(report) = Len(ReportLines(summary))
    /\ openHandles' = openHandles \ {"report.txt"}
    /\ pc' = "export_files"
    /\ UNCHANGED <<error, outDirExists, fileState, report, cleanedCsv,
                   flaggedCsv, env, df, summary, visited>>

\* df.to_csv("outputs/tickets_cleaned.csv", index=False); outputs/ exists,
\* write_report has just written into it.
ExportCleaned ==
    /\ pc = "export_files"
    /\ cleanedCsv' = to_csv(df)
    /\ fileState' = [fileState EXCEPT !["tickets_cleaned.csv"] = "written"]
    /\ pc' = "export_flagged"
    /\ UNCHANGED <<error, outDirExists, report, flaggedCsv, openHandles, env, df,
                   summary, visited>>

\* The loop over flagged rows and flagged_df.to_csv(...); main() prints
\* "Program finished successfully." and returns.
ExportFlagged ==
    /\ pc = "export_flagged"
    /\ IF RaisesKeyError(df)
       THEN /\ Raise("KeyError in export_files")
            /\ UNCHANGED <<flaggedCsv, fileState>>
       ELSE /\ flaggedCsv' = to_csv(FlaggedDf(df))
            /\ fileState' = [fileState EXCEPT !["tickets_flagged.csv"] = "written"]
            /\ pc' = "done"
            /\ UNCHANGED error
    /\ UNCHANGED <<outDirExists, report, cleanedCsv, openHandles, env, df,
                   summary, visited>>

\* <<issue_type, is_flagged>> of every row.
Labels(d) == [k \in 1..Len(d) |-> <<d[k].issue_type, d[k].is_flagged>>]

\* The program is run again with outputs/tickets_cleaned.csv as its
\* tickets.csv; the output files of the first run are still there.
Rerun ==
    /\ pc = "done"
    /\ run = 1
    /\ run' = 2
    /\ input' = cleanedCsv
    /\ firstRun' = Labels(df)
    /\ fileState' = [f \in OutputFiles |->
                        IF fileState[f] = "written" THEN "stale" ELSE fileState[f]]
    /\ pc' = "load_data"
    /\ df' = <<>>
    /\ summary' = <<>>
    /\ visited' = <<>>
    /\ UNCHANGED <<inputReadable, outDirExists, report, cleanedCsv, flaggedCsv,
                   openHandles, error>>

Next ==
    \/ LoadData
    \/ RemoveDuplicates
    \/ CleanTextColumns
    \/ HandleMissingValues
    \/ CleanDates
    \/ ClassifyIssues
    \/ FlagTickets
    \/ CreateSummary
    \/ OpenReport
    \/ WriteLine
    \/ WriteFails
    \/ CloseReport
    \/ ExportCleaned
    \/ ExportFlagged
    \/ Rerun

Spec == Init /\ [][Next]_vars


(***************************************************************************)
(* Stages of a run                                                         *)
(***************************************************************************)
\* handle_missing_values has returned.
AfterCleaning ==
    \/ pc \in {"clean_dates", "classify_issues", "flag_tickets", "create_summary",
               "write_report", "f.write", "export_files", "export_flagged", "done"}
    \/ pc = "aborted" /\ error # "FileNotFoundError: tickets.csv"

\* classify_issues has returned.
AfterClassify ==
    \/ pc \in {"flag_tickets", "create_summary", "write_report", "f.write",
               "export_files", "export_flagged", "done"}
    \/ pc = "aborted" /\ error \in {"FileNotFoundError: outputs/report.txt",
                                    "OSError in write_report"}

\* flag_tickets has returned.
AfterFlag == AfterClassify /\ pc # "flag_tickets"

\* create_summary has returned.
AfterSummary == AfterFlag /\ pc # "create_summary"

\* write_report has returned or raised.
AfterWriteReport ==
    \/ pc \in {"export_files", "export_flagged", "done"}
    \/ pc = "aborted" /\ error \in {"FileNotFoundError: outputs/report.txt",
                                    "OSError in write_report"}

IssueTypes == {Billing, Technical, Account, Delivery, Other}

(***************************************************************************)
(* C1                                                                      *)
(***************************************************************************)
Categories == <<Billing, Technical, Account, Delivery>>

KeywordSets == <<billing_words, technical_words, account_words, delivery_words>>

\* w occurs in text at position i.
OccursAt(w, text, i) ==
    /\ i + Len(w) - 1 <= Len(text)
    /\ \A j \in 1..Len(w) : text[i + j - 1] = w[j]

\* The categories that have a keyword that is a contiguous substring of
\* lowercase(subject + " " + message).
Matching(subject, message) ==
    LET text == Lower(subject \o <<" ">> \o message)
    IN  {c \in 1..4 : \E w \in KeywordSets[c] :
                          \E i \in 1..Len(text) : OccursAt(w, text, i)}

\* C1: once classify_issues has returned, every row has the issue type of
\* the first category, in the order Billing, Technical, Account, Delivery,
\* that has a keyword in the lowercased subject + " " + message, and Other
\* if and only if no category has one.
C1_FirstMatchingCategory ==
    AfterClassify =>
        \A k \in 1..Len(df) :
            LET m == Matching(df[k].subject, df[k].message)
            IN  /\ m = {} <=> df[k].issue_type = Other
                /\ m # {} =>
                     df[k].issue_type =
                        Categories[CHOOSE c \in m : \A c2 \in m : c <= c2]

\* A row with a Billing and a Technical keyword has been labelled Billing.
C1_Witness ==
    /\ AfterClassify
    /\ \E k \in 1..Len(df) :
          /\ {1, 2} \subseteq Matching(df[k].subject, df[k].message)
          /\ df[k].issue_type = Billing

(***************************************************************************)
(* C2                                                                      *)
(***************************************************************************)
Punctuated(m) ==
    \E i \in 1..Len(m) : OccursAt(<<"!", "!", "!">>, m, i) \/ OccursAt(<<"?", "?", "?">>, m, i)

\* C2 as claimed: once flag_tickets has returned, every row is flagged by
\* the first rule that applies, in the order length < 20, "at least one
\* cased character and no lowercase character", contains "!!!" or "???".
C2_AsClaimed ==
    AfterFlag =>
        \A k \in 1..Len(df) :
            LET m == df[k].message
                allCaps == /\ \E i \in 1..Len(m) : IsCasedCh(m[i])
                           /\ \A i \in 1..Len(m) : ~IsLowerCh(m[i])
            IN  <<df[k].is_flagged, df[k].flag_reason>> =
                    IF Len(m) < 20 THEN <<TRUE, ReasonShort>>
                    ELSE IF allCaps THEN <<TRUE, ReasonCaps>>
                    ELSE IF Punctuated(m) THEN <<TRUE, ReasonPunct>>
                    ELSE <<FALSE, <<>> >>

\* C2 as amended: the all-caps rule is "at least one uppercase character
\* and no lowercase or titlecase character".
C2_RulesInOrder ==
    AfterFlag =>
        \A k \in 1..Len(df) :
            LET m == df[k].message
                allCaps == /\ \E i \in 1..Len(m) : IsUpperCh(m[i])
                           /\ \A i \in 1..Len(m) :
                                 IsCasedCh(m[i]) => IsUpperCh(m[i])
            IN  /\ <<df[k].is_flagged, df[k].flag_reason>> =
                        IF Len(m) < 20 THEN <<TRUE, ReasonShort>>
                        ELSE IF allCaps THEN <<TRUE, ReasonCaps>>
                        ELSE IF Punctuated(m) THEN <<TRUE, ReasonPunct>>
                        ELSE <<FALSE, <<>> >>
                /\ ( /\ Len(m) >= 20
                     /\ \A i \in 1..Len(m) : ~IsCasedCh(m[i])
                     /\ ~Punctuated(m) ) => df[k].is_flagged = FALSE

\* A short message in capitals has been flagged as too short.
C2_Witness ==
    /\ AfterFlag
    /\ \E k \in 1..Len(df) :
          /\ Len(df[k].message) < 20
          /\ \E i \in 1..Len(df[k].message) : IsUpperCh(df[k].message[i])
          /\ \A i \in 1..Len(df[k].message) : IsUpperCh(df[k].message[i])
          /\ df[k].flag_reason = ReasonShort

(***************************************************************************)
(* C3                                                                      *)
(***************************************************************************)
Reasons == {<<>>, ReasonShort, ReasonCaps, ReasonPunct}

\* C3: once flag_tickets has returned, in the data frame and in both
\* exports, a row is flagged if and only if its reason is not empty, and the
\* reason is "" or one of the three reasons.
C3_FlagIffReason ==
    /\ AfterFlag =>
          \A k \in 1..Len(df) :
              /\ df[k].is_flagged \in BOOLEAN
              /\ df[k].is_flagged <=> df[k].flag_reason # <<>>
              /\ df[k].flag_reason \in Reasons
    /\ \A k \in 1..Len(cleanedCsv) :
          /\ cleanedCsv[k].is_flagged \in {BoolStr(TRUE), BoolStr(FALSE)}
          /\ cleanedCsv[k].is_flagged = BoolStr(TRUE) <=> cleanedCsv[k].flag_reason # <<>>
          /\ cleanedCsv[k].flag_reason \in Reasons
    /\ \A k \in 1..Len(flaggedCsv) :
          /\ flaggedCsv[k].is_flagged = BoolStr(TRUE)
          /\ flaggedCsv[k].flag_reason \in Reasons \ {<<>>}

\* Both exports are written, with a flagged row and a row that is not
\* flagged.
C3_Witness ==
    /\ pc = "done"
    /\ \E k \in 1..Len(cleanedCsv) : cleanedCsv[k].flag_reason = <<>>
    /\ \E k \in 1..Len(flaggedCsv) : flaggedCsv[k].flag_reason # <<>>

(***************************************************************************)
(* C4                                                                      *)
(***************************************************************************)
\* The row of tickets.csv that the row r of the data frame was read from.
Source(r) == input[r.index + 1]

\* C4 as claimed: once handle_missing_values has returned, a row whose
\* priority cell was empty has priority "Low" and a row whose status cell
\* was empty has status "Open".
C4_AsClaimed ==
    AfterCleaning =>
        \A k \in 1..Len(df) :
            /\ ReadCell(Source(df[k]).priority) = NaN => df[k].priority = <<"L", "o", "w">>
            /\ ReadCell(Source(df[k]).status) = NaN => df[k].status = <<"O", "p", "e", "n">>

(***************************************************************************)
(* C5                                                                      *)
(***************************************************************************)
\* C5 as claimed: classify_issues looks up no label that deduplication
\* removed, and when it has returned it has visited the labels of the
\* surviving rows once each, in order, and every row has an issue type.
C5_AsClaimed ==
    /\ error # "KeyError in classify_issues"
    /\ AfterClassify =>
          /\ visited = IndexOf(df)
          /\ \A k \in 1..Len(df) : df[k].issue_type \in IssueTypes

(***************************************************************************)
(* C6                                                                      *)
(***************************************************************************)
\* C6 as claimed: the run never fails because outputs/ does not exist, and
\* when write_report has returned or raised the directory exists.
C6_AsClaimed ==
    /\ error # "FileNotFoundError: outputs/report.txt"
    /\ AfterWriteReport => outDirExists

(***************************************************************************)
(* C7                                                                      *)
(***************************************************************************)
\* C7: when tickets.csv cannot be read the run ends in load_data, and
\* until load_data has returned no output file has been opened for
\* writing or written, and no output content has changed.
C7_NoWriteBeforeLoad ==
    /\ (~inputReadable /\ pc # "load_data") =>
          pc = "aborted" /\ error = "FileNotFoundError: tickets.csv"
    /\ (pc = "load_data" \/ error = "FileNotFoundError: tickets.csv") =>
          /\ \A f \in OutputFiles : fileState[f] # "written"
          /\ openHandles = {}
          /\ run = 1 => report = <<>> /\ cleanedCsv = <<>> /\ flaggedCsv = <<>>

\* The run on an unreadable tickets.csv has aborted with output files of an
\* earlier run in place.
C7_Witness ==
    /\ ~inputReadable
    /\ pc = "aborted"
    /\ \A f \in OutputFiles : fileState[f] = "stale"

(***************************************************************************)
(* C8                                                                      *)
(***************************************************************************)
\* C8 as claimed: the run on the cleaned export does not fail in the
\* pipeline, and when its flag_tickets has returned every row has the
\* issue_type and is_flagged the first run gave it.
C8_AsClaimed ==
    run = 2 =>
        /\ error \notin {"KeyError in classify_issues", "FileNotFoundError: tickets.csv"}
        /\ AfterFlag => Labels(df) = firstRun

(***************************************************************************)
(* C9                                                                      *)
(***************************************************************************)
RECURSIVE SetSum(_, _)
\* The sum of resolution_time_hours over the rows at the positions in S.
SetSum(d, S) ==
    IF S = {} THEN 0
    ELSE LET k == CHOOSE k \in S : TRUE
         IN  d[k].resolution_time_hours + SetSum(d, S \ {k})

\* The mean over the rows at the positions in S: "N/A" for no row, NaN when
\* a value is NaN.
SubsetMean(d, S) ==
    IF S = {} THEN NA
    ELSE IF \E k \in S : d[k].resolution_time_hours = NaNf THEN <<"nan", 0, 0>>
    ELSE <<"float", SetSum(d, S), Cardinality(S)>>

\* The value of the key in the summary.
Get(s, key) == s[CHOOSE j \in 1..Len(s) : s[j].key = key].value

\* C9: create_summary raises nothing; flagged_percent is 0 for no row; each
\* of the two averages is "N/A" exactly when its subset is empty and
\* otherwise the sum over the subset divided by its size.
C9_Summary ==
    /\ error # "KeyError in create_summary"
    /\ AfterSummary =>
          LET flagged    == {k \in 1..Len(df) : df[k].is_flagged}
              notFlagged == {k \in 1..Len(df) : ~df[k].is_flagged}
          IN  /\ Len(df) = 0 => Get(summary, "flagged_percent") = IntVal(0)
              /\ Get(summary, "avg_resolution_flagged_hours") = NA <=> flagged = {}
              /\ Get(summary, "avg_resolution_not_flagged_hours") = NA <=> notFlagged = {}
              /\ Get(summary, "avg_resolution_flagged_hours") = SubsetMean(df, flagged)
              /\ Get(summary, "avg_resolution_not_flagged_hours") = SubsetMean(df, notFlagged)

\* A summary of flagged and unflagged rows with different resolution times.
C9_Witness ==
    /\ AfterSummary
    /\ Get(summary, "avg_resolution_flagged_hours")[1] = "float"
    /\ Get(summary, "avg_resolution_not_flagged_hours")[1] = "float"
    /\ Get(summary, "avg_resolution_flagged_hours") #
          Get(summary, "avg_resolution_not_flagged_hours")

(***************************************************************************)
(* C10                                                                     *)
(***************************************************************************)
\* C10 as claimed: when write_report has returned or raised, the program
\* has no file open.
C10_AsClaimed == AfterWriteReport => openHandles = {}

=============================================================================
